---- MODULE Spec2Model ----
(***************************************************************************)
(* Model of epicsdb2bob: the include-ordering of databases/templates       *)
(* (utils.order_dbs_by_includes), the grid layout of one database          *)
(* (bobfile_gen.generate_bobfile_for_db and its helpers), the layout of    *)
(* one substitution (bobfile_gen.generate_bobfile_for_substitution), the   *)
(* rectangle packer (utils.pack_close_to_square) and the order of the      *)
(* calls in __main__.main.                                                 *)
(*                                                                         *)
(* The specifications share the variables:                                 *)
(*   SpecOrder  one call of order_dbs_by_includes, one action per pass of  *)
(*              its while loop;                                            *)
(*   Spec       one call of generate_bobfile_for_db, one action per        *)
(*              iteration of its loop over the records, then the sizing;   *)
(*   SpecDet    two calls of generate_bobfile_for_db on the same input;    *)
(*   SpecSub    one call of generate_bobfile_for_substitution, one action  *)
(*              per instance of a template, then the sizing;               *)
(*   SpecPack   one call of pack_close_to_square, one action per attempt;  *)
(*   SpecMain   one run of main from the search for databases on.          *)
(***************************************************************************)
EXTENDS Integers, Sequences, FiniteSets, TLC

VARIABLES
    databases,      \* order_dbs_by_includes: the input dict, as its items in order
    ordered_dbs,    \* order_dbs_by_includes: the keys of the OrderedDict, in order
    warnings,       \* logger.warning calls of order_dbs_by_includes, in order
    passes,         \* number of completed passes of the while loop
    opc,            \* "running" | "returned" | "raised" | "idle"
    database,       \* generate_bobfile_for_db: the records of the unit, in order
    config,         \* generate_bobfile_for_db: the EPICSDB2BOBConfig
    run,            \* generate_bobfile_for_db: the locals of the (first) call
    run2,           \* the locals of a second call on the same input (SpecDet)
    substitution,   \* generate_bobfile_for_substitution: the items of the dict, in order
    found_bobfiles, \* generate_bobfile_for_substitution: the known displays
    sub,            \* generate_bobfile_for_substitution: the locals of the call
    pack_args,      \* pack_close_to_square: rectangle_sizes, max_height, padding
    pack,           \* pack_close_to_square: the locals of the call
    main            \* main: the locals of the run

vars == <<databases, ordered_dbs, warnings, passes, opc,
          database, config, run, run2,
          substitution, found_bobfiles, sub, pack_args, pack, main>>

orderVars == <<databases, ordered_dbs, warnings, passes, opc>>
layoutVars == <<database, config, run, run2>>
subVars == <<substitution, found_bobfiles, sub>>
packVars == <<pack_args, pack>>

(***************************************************************************)
(* Bounds                                                                  *)
(***************************************************************************)
MaxUnits == 3       \* units in the input of order_dbs_by_includes
MaxIncludes == 2    \* includes of one unit
MaxRecords == 3     \* records of a small database
LongLen == 41       \* records of the long uniform database
MaxTemplates == 3   \* templates of a substitution
MaxInstances == 2   \* instances of one template
MaxRects == 2       \* rectangles in the input of pack_close_to_square
MaxMainUnits == 2   \* units found by main
MaxSubs == 2        \* substitutions found by main
MaxFairUnits == 2   \* units in the input of order_dbs_by_includes, fair runs
MaxCursorRecords == 2     \* records of a small database, fair runs
MaxCursorTemplates == 2   \* templates of a substitution, fair runs
MaxCursorInstances == 2   \* instances of one template, fair runs

(***************************************************************************)
(* order_dbs_by_includes                                                   *)
(***************************************************************************)

\* Names of the units of the input, and one name that is no key of it.
DbName(i) == <<"db", i>>
UnknownName == <<"unknown", 0>>

\* An include is a file name: root and extension.
IncludeFile(name) == [root |-> name, ext |-> ".template"]

\* os.path.splitext(include): the pair (root, ext).
SplitExt(include) == <<include.root, include.ext>>

\* The keys of a dict given as its items.
Keys(dbs) == {dbs[k].name : k \in 1..Len(dbs)}

\* db_name in ordered_dbs
InOrdered(ordered, name) == \E k \in 1..Len(ordered) : ordered[k] = name

\* The body of the for loop for one item, on the locals (o: ordered_dbs,
\* w: the warnings logged so far).
VisitDb_WarnOnly(dbs, item, st) ==
    IF InOrdered(st.o, item.name) THEN st
    ELSE IF \A inc \in item.includes : InOrdered(st.o, SplitExt(inc)[1])
    THEN [o |-> Append(st.o, item.name), w |-> st.w]
    ELSE IF ~ (\A inc \in item.includes : SplitExt(inc)[1] \in Keys(dbs))
    THEN [o |-> st.o,
          w |-> Append(st.w, [db |-> item.name, includes |-> item.includes])]
    ELSE st

VisitDb_Prepend(dbs, item, st) ==
    IF InOrdered(st.o, item.name) THEN st
    ELSE IF \A inc \in item.includes : InOrdered(st.o, SplitExt(inc)[1])
    THEN [o |-> <<item.name>> \o st.o, w |-> st.w]
    ELSE IF ~ (\A inc \in item.includes : SplitExt(inc)[1] \in Keys(dbs))
    THEN [o |-> <<item.name>> \o st.o,
          w |-> Append(st.w, [db |-> item.name, includes |-> item.includes])]
    ELSE st

VisitDb(dbs, item, st) ==
    IF InOrdered(st.o, item.name) THEN st
    ELSE IF \A inc \in item.includes : InOrdered(st.o, SplitExt(inc)[1])
    THEN [o |-> Append(st.o, item.name), w |-> st.w]
    ELSE IF ~ (\A inc \in item.includes : SplitExt(inc)[1] \in Keys(dbs))
    THEN [o |-> Append(st.o, item.name),
          w |-> Append(st.w, [db |-> item.name, includes |-> item.includes])]
    ELSE st

\* for db_name, db in databases.items(): ...   from item k on
RECURSIVE ForLoop(_, _, _)
ForLoop(dbs, k, st) ==
    IF k > Len(dbs) THEN st
    ELSE ForLoop(dbs, k + 1, VisitDb(dbs, dbs[k], st))

\* The inputs: n units db1..dbn in iteration order, each including at most
\* MaxIncludes files among the units and the unknown name.
IncludeSets(n) ==
    {s \in SUBSET ({IncludeFile(DbName(i)) : i \in 1..n} \cup {IncludeFile(UnknownName)}) :
        Cardinality(s) <= MaxIncludes}

\* The input of n units with the include sets f[1], ..., f[n].
InputDatabases(n, f) == [k \in 1..n |-> [name |-> DbName(k), includes |-> f[k]]]

IdleRun == [pc |-> "idle"]

\* The variables of the calls a specification does not make.
IdleSub == substitution = <<>> /\ found_bobfiles = <<>> /\ sub = IdleRun
IdlePack == pack_args = IdleRun /\ pack = IdleRun
IdleMain == main = IdleRun

\* A call on an input of at most max_units units.
InitOrderWith(max_units) ==
    /\ \E n \in 1..max_units : \E f \in [1..n -> IncludeSets(n)] :
          databases = InputDatabases(n, f)
    /\ ordered_dbs = <<>>
    /\ warnings = <<>>
    /\ passes = 0
    /\ opc = "running"
    /\ database = <<>>
    /\ config = [title_bar_format |-> "idle"]
    /\ run = IdleRun
    /\ run2 = IdleRun
    /\ IdleSub /\ IdlePack /\ IdleMain

InitOrder == InitOrderWith(MaxUnits)

\* if start_len == endlen: raise RuntimeError
NoProgress_Never(start_len, endlen) == FALSE

NoProgress(start_len, endlen) == start_len = endlen

\* One pass of the while loop: the for loop over all items, then the check
\* that the pass resolved something.
OrderPass ==
    /\ opc = "running"
    /\ Len(ordered_dbs) < Len(databases)
    /\ LET st == ForLoop(databases, 1, [o |-> ordered_dbs, w |-> warnings])
       IN /\ ordered_dbs' = st.o
          /\ warnings' = st.w
          /\ passes' = passes + 1
          /\ opc' = IF NoProgress(Len(ordered_dbs), Len(st.o))
                    THEN "raised" ELSE "running"
    /\ UNCHANGED <<databases, layoutVars, subVars, packVars, main>>

\* The while condition fails: return ordered_dbs.
OrderReturn ==
    /\ opc = "running"
    /\ Len(ordered_dbs) >= Len(databases)
    /\ opc' = "returned"
    /\ UNCHANGED <<databases, ordered_dbs, warnings, passes, layoutVars,
                   subVars, packVars, main>>

NextOrder == OrderPass \/ OrderReturn

SpecOrder == InitOrder /\ [][NextOrder]_vars

\* The whole call as a function of its input: the passes from the locals st
\* on, up to the return or the error.
RECURSIVE WhileLoop(_, _)
WhileLoop(dbs, st) ==
    IF Len(st.o) >= Len(dbs) THEN [result |-> "returned", ordered_dbs |-> st.o]
    ELSE LET next == ForLoop(dbs, 1, st)
         IN IF NoProgress(Len(st.o), Len(next.o))
            THEN [result |-> "raised", ordered_dbs |-> next.o]
            ELSE WhileLoop(dbs, next)

order_dbs_by_includes(dbs) == WhileLoop(dbs, [o |-> <<>>, w |-> <<>>])

\* The call runs on: a pass or the return that can be made is made.
SpecOrderFair ==
    InitOrderWith(MaxFairUnits) /\ [][NextOrder]_vars /\ WF_vars(NextOrder)

(***************************************************************************)
(* Configuration (config.EPICSDB2BOBConfig)                                *)
(***************************************************************************)

TitleBarFormats == {"none", "minimal", "full"}

\* DEFAULT_RTYP_TO_WIDGET_MAP
DefaultRtypToWidgetMap ==
    [rtyp \in {"mbbo", "mbbi", "bo", "bi", "ao", "ai", "longout", "longin",
               "stringout", "stringin"} |->
        CASE rtyp = "mbbo" -> "ComboBox"
          [] rtyp = "bo" -> "ChoiceButton"
          [] rtyp = "bi" -> "LED"
          [] rtyp \in {"ao", "longout", "stringout"} -> "TextEntry"
          [] OTHER -> "TextUpdate"]

WidgetKinds == {"Label", "Rectangle", "ComboBox", "ChoiceButton", "LED",
                "TextEntry", "TextUpdate"}

\* The defaults of the dataclass, for a title bar format.
DefaultConfig(format) ==
    [title_bar_format |-> format,
     rtyp_to_widget_map |-> DefaultRtypToWidgetMap,
     readback_suffix |-> <<"_RBV">>,
     default_widget_width |-> 150,
     default_widget_height |-> 20,
     max_screen_height |-> 1200,
     widget_offset |-> 10,
     title_bar_heights |-> [f \in TitleBarFormats |->
                              CASE f = "none" -> 0 [] f = "minimal" -> 20 [] f = "full" -> 40],
     widget_widths |-> ("LED" :> 20)]

\* A configuration with small geometry, so that a few records fill a column.
SmallConfig(format, height, width, offset, widths) ==
    [title_bar_format |-> format,
     rtyp_to_widget_map |-> DefaultRtypToWidgetMap,
     readback_suffix |-> <<"_RBV">>,
     default_widget_width |-> width,
     default_widget_height |-> 2,
     max_screen_height |-> height,
     widget_offset |-> offset,
     title_bar_heights |-> [f \in TitleBarFormats |->
                              CASE f = "none" -> 0 [] f = "minimal" -> 1 [] f = "full" -> 2],
     widget_widths |-> widths]

SmallConfigs ==
    {SmallConfig("none", 7, 3, 1, ("LED" :> 1)),
     SmallConfig("minimal", 6, 3, 1, ("LED" :> 1)),
     SmallConfig("full", 6, 3, 1, ("LED" :> 1)),
     SmallConfig("none", 4, 3, 1, ("LED" :> 1) @@ ("Label" :> 2)),
     SmallConfig("none", 3, 0, 0, ("LED" :> 1)),
     SmallConfig("full", 4, 3, 1, ("LED" :> 1))}

DefaultConfigs == {DefaultConfig(f) : f \in TitleBarFormats}

\* config.widget_widths.get(kind, config.default_widget_width)
WidgetWidth(cfg, kind) ==
    IF kind \in DOMAIN cfg.widget_widths THEN cfg.widget_widths[kind]
    ELSE cfg.default_widget_width

TitleBarHeight(cfg) == cfg.title_bar_heights[cfg.title_bar_format]

(***************************************************************************)
(* Databases: ordered records, each a name and a record type.  A name is a *)
(* string, kept as its sequence of tokens, so that name + suffix is        *)
(* concatenation.                                                          *)
(***************************************************************************)

RecordNames == {<<"X">>, <<"X", "_RBV">>, <<"Y">>, <<"Y", "_RBV">>}
Rtyps == {"ao", "bi", "waveform"}

NoRecord == [name |-> <<>>, rtyp |-> "None"]

SmallDatabasesUpTo(max_records) ==
    UNION {{db \in [1..n -> [name : RecordNames, rtyp : Rtyps]] :
                \A j, k \in 1..n : db[j].name = db[k].name => j = k} :
           n \in 0..max_records}

SmallDatabases == SmallDatabasesUpTo(MaxRecords)

\* LongLen records of type ai with distinct names and no readback.
UniformDatabase == [k \in 1..LongLen |-> [name |-> <<"PV", ToString(k)>>, rtyp |-> "ai"]]

\* name in database
InDatabase(db, name) == \E k \in 1..Len(db) : db[k].name = name

\* database[name]
Lookup(db, name) == db[CHOOSE k \in 1..Len(db) : db[k].name = name]

(***************************************************************************)
(* Widgets (phoebusgen), with the attributes the layout sets.              *)
(***************************************************************************)

\* short_uuid(): a random identifier.
Uuids == {"a", "b"}

NoWidget == [kind |-> "None"]

\* widget_type(name, pv_name, x, y, width, height); a Label and a Rectangle
\* have no pv_name.
Widget(kind, name, pv, x, y, width, height) ==
    [kind |-> kind, name |-> name, pv |-> pv, x |-> x, y |-> y,
     width |-> width, height |-> height]

add_label_for_record(record, start_x, start_y, cfg, uuid) ==
    Widget("Label", <<"uuid", uuid>>, <<>>, start_x, start_y,
           cfg.default_widget_width, cfg.default_widget_height)

\* uuids: the results of the calls of short_uuid(), in call order.
RECURSIVE add_widget_for_record(_, _, _, _, _, _, _)
add_widget_for_record(record, start_x, start_y, cfg, readback_record, with_label, uuids) ==
    LET widget_type == cfg.rtyp_to_widget_map[record.rtyp]
        labels == IF with_label
                  THEN <<add_label_for_record(record, start_x, start_y, cfg, uuids[1])>>
                  ELSE <<>>
        rest == IF with_label THEN Tail(uuids) ELSE uuids
        x1 == IF with_label
              THEN start_x + WidgetWidth(cfg, "Label") + cfg.widget_offset
              ELSE start_x
        widget == Widget(widget_type, <<"uuid", rest[1]>>, record.name, x1, start_y,
                         WidgetWidth(cfg, widget_type), cfg.default_widget_height)
        x2 == x1 + WidgetWidth(cfg, widget_type) + cfg.widget_offset
        readbacks == IF readback_record # NoRecord
                     THEN add_widget_for_record(readback_record, x2, start_y, cfg,
                                                NoRecord, FALSE, Tail(rest))
                     ELSE <<>>
    IN labels \o <<widget>> \o readbacks

add_title_bar(cfg, title_bar_width, uuid) ==
    IF cfg.title_bar_format = "none" THEN NoWidget
    ELSE Widget("Label", <<"uuid", uuid>>, <<>>,
                IF cfg.title_bar_format = "minimal" THEN cfg.widget_offset ELSE 0,
                0, title_bar_width, TitleBarHeight(cfg))

add_border(cfg, uuid) ==
    IF cfg.title_bar_format # "minimal" THEN NoWidget
    ELSE Widget("Rectangle", <<"uuid", uuid>>, <<>>,
                0, (TitleBarHeight(cfg) \div 2) + 1, 0, 0)

get_widget_start_positions(cfg) ==
    <<cfg.widget_offset, cfg.widget_offset + TitleBarHeight(cfg)>>

get_next_x_position_Stays(current_x, col_width_widgets, cfg) == current_x

get_next_x_position(current_x, col_width_widgets, cfg) ==
    current_x + col_width_widgets * (cfg.default_widget_width + cfg.widget_offset)

get_next_widget_position_NoTitleBar(current_x, current_y, col_width_widgets, cfg) ==
    LET new_y == current_y + cfg.default_widget_height + cfg.widget_offset
    IN IF new_y > cfg.max_screen_height
       THEN <<get_next_x_position(current_x, col_width_widgets, cfg),
              get_widget_start_positions(cfg)[2]>>
       ELSE <<current_x, new_y>>

get_next_widget_position_NoHeight(current_x, current_y, col_width_widgets, cfg) ==
    LET new_y == current_y + cfg.widget_offset
    IN IF new_y > cfg.max_screen_height - TitleBarHeight(cfg)
       THEN <<get_next_x_position(current_x, col_width_widgets, cfg),
              get_widget_start_positions(cfg)[2]>>
       ELSE <<current_x, new_y>>

get_next_widget_position(current_x, current_y, col_width_widgets, cfg) ==
    LET new_y == current_y + cfg.default_widget_height + cfg.widget_offset
    IN IF new_y > cfg.max_screen_height - TitleBarHeight(cfg)
       THEN <<get_next_x_position(current_x, col_width_widgets, cfg),
              get_widget_start_positions(cfg)[2]>>
       ELSE <<current_x, new_y>>

add_dividing_line_FullHeight(x_position, y_position, cfg, uuid) ==
    Widget("Rectangle", <<"uuid", uuid>>, <<>>, x_position, y_position,
           2, cfg.max_screen_height)

add_dividing_line(x_position, y_position, cfg, uuid) ==
    Widget("Rectangle", <<"uuid", uuid>>, <<>>, x_position, y_position,
           2, cfg.max_screen_height - y_position)

(***************************************************************************)
(* generate_bobfile_for_db                                                 *)
(*                                                                         *)
(* The locals of one call are a record:                                    *)
(*   pc                 "loop" | "done"                                    *)
(*   i                  index of the next record of database.values()      *)
(*   current_x_pos, current_y_pos, col_width_widgets, widget_counters,     *)
(*   records_seen       as in the source                                   *)
(*   screen             the widgets added to the Screen, in order          *)
(*   screen_width, screen_height   set when the loop is over               *)
(*   groups             history: for each call of add_widget_for_record    *)
(*                      the record, the readback, the cursor and where its *)
(*                      widgets are in screen                              *)
(*   unsupported        history: the records skipped with a warning        *)
(***************************************************************************)

Max(a, b) == IF a >= b THEN a ELSE b

\* widget.name(f"{type(widget).__name__}_{widget_counters[type(widget)]}")
NameWidget_KeepUuid(widget, counters) == widget

NameWidget(widget, counters) ==
    [widget EXCEPT !.name = <<widget.kind, ToString(counters[widget.kind])>>]

\* Count, name and add one widget; st = [counters, screen].
AddWidget(widget, st) ==
    LET counters == [st.counters EXCEPT ![widget.kind] = @ + 1]
    IN [counters |-> counters,
        screen |-> Append(st.screen, NameWidget(widget, counters))]

\* for widget in widgets_for_record: ...   from widget k on
RECURSIVE AddWidgets(_, _, _)
AddWidgets(widgets, k, st) ==
    IF k > Len(widgets) THEN st
    ELSE AddWidgets(widgets, k + 1, AddWidget(widgets[k], st))

\* The readback record of a record: database[name + suffix] if it exists and
\* its type has a widget.
FindReadback_Never(db, record, cfg) == NoRecord

FindReadback(db, record, cfg) ==
    IF InDatabase(db, record.name \o cfg.readback_suffix)
    THEN LET rb == Lookup(db, record.name \o cfg.readback_suffix)
         IN IF rb.rtyp \in DOMAIN cfg.rtyp_to_widget_map THEN rb ELSE NoRecord
    ELSE NoRecord

\* record.name in records_seen
Seen(records_seen, name) == \E k \in 1..Len(records_seen) : records_seen[k] = name

\* The locals before the loop: the cursor at the start position and the
\* border, if the format has one, as first widget.
InitRun(cfg, uuid) ==
    LET start == get_widget_start_positions(cfg)
        border == add_border(cfg, uuid)
        empty == [counters |-> [k \in WidgetKinds |-> 0], screen |-> <<>>]
        st == IF border # NoWidget THEN AddWidget(border, empty) ELSE empty
    IN [pc |-> "loop", i |-> 1,
        current_x_pos |-> start[1], current_y_pos |-> start[2],
        col_width_widgets |-> 2,
        widget_counters |-> st.counters,
        records_seen |-> <<>>,
        screen |-> st.screen,
        screen_width |-> 0, screen_height |-> 0,
        groups |-> <<>>, unsupported |-> <<>>]

\* logger.warning(f"Record type {record.rtyp} not supported, skipping.")
SkipUnsupported_MarksSeen(next, record) ==
    [next EXCEPT !.unsupported = Append(@, record.name),
                 !.records_seen = Append(@, record.name)]

SkipUnsupported(next, record) ==
    [next EXCEPT !.unsupported = Append(@, record.name)]

\* One iteration of the loop over database.values().
LoopBody(r, db, cfg, uuids) ==
    LET record == db[r.i]
        next == [r EXCEPT !.i = r.i + 1]
    IN IF record.rtyp \notin DOMAIN cfg.rtyp_to_widget_map
       THEN SkipUnsupported(next, record)
       ELSE IF Seen(r.records_seen, record.name)
       THEN next
       ELSE
        LET readback_record == FindReadback(db, record, cfg)
            widgets_for_record ==
                add_widget_for_record(record, r.current_x_pos, r.current_y_pos, cfg,
                                      readback_record, TRUE, uuids)
            col == Max(Len(widgets_for_record), r.col_width_widgets)
            st == AddWidgets(widgets_for_record, 1,
                             [counters |-> r.widget_counters, screen |-> r.screen])
            seen == IF readback_record # NoRecord
                    THEN r.records_seen \o <<record.name, readback_record.name>>
                    ELSE Append(r.records_seen, record.name)
            pos == get_next_widget_position(r.current_x_pos, r.current_y_pos, col, cfg)
            wrapped == pos[2] = get_widget_start_positions(cfg)[2]
            dividing_line ==
                add_dividing_line(pos[1] - cfg.widget_offset, pos[2], cfg, uuids[4])
            st2 == IF wrapped THEN AddWidget(dividing_line, st) ELSE st
            group == [record |-> record.name, readback |-> readback_record.name,
                      x |-> r.current_x_pos, y |-> r.current_y_pos,
                      first |-> Len(r.screen) + 1, len |-> Len(widgets_for_record),
                      col |-> col]
        IN [next EXCEPT !.current_x_pos = pos[1],
                        !.current_y_pos = pos[2],
                        !.col_width_widgets = IF wrapped THEN 2 ELSE col,
                        !.widget_counters = st2.counters,
                        !.records_seen = seen,
                        !.screen = st2.screen,
                        !.groups = Append(@, group)]

\* After the loop: the size of the screen, the title bar and the border.
Sizing(r, cfg, uuid) ==
    LET start == get_widget_start_positions(cfg)
        screen_width == get_next_x_position(r.current_x_pos, r.col_width_widgets, cfg)
        screen_height == IF r.current_x_pos # start[1]
                         THEN cfg.max_screen_height + cfg.widget_offset
                         ELSE r.current_y_pos + cfg.widget_offset
        title_bar == add_title_bar(cfg, screen_width - cfg.widget_offset, uuid)
        st0 == [counters |-> r.widget_counters, screen |-> r.screen]
        st == IF title_bar # NoWidget THEN AddWidget(title_bar, st0) ELSE st0
        screen == IF cfg.title_bar_format = "minimal"
                  THEN [st.screen EXCEPT
                          ![1].width = screen_width,
                          ![1].height = screen_height - (TitleBarHeight(cfg) \div 2)]
                  ELSE st.screen
    IN [r EXCEPT !.pc = "done",
                 !.widget_counters = st.counters,
                 !.screen = screen,
                 !.screen_width = screen_width,
                 !.screen_height = screen_height]

\* The uuids of one iteration: label, widget, readback widget, dividing line.
UuidSeqs == [1..4 -> Uuids]

Inputs ==
    (SmallDatabases \X SmallConfigs) \cup ({UniformDatabase} \X DefaultConfigs)

Init ==
    /\ \E input \in Inputs : database = input[1] /\ config = input[2]
    /\ run \in {InitRun(config, uuid) : uuid \in Uuids}
    /\ run2 = IdleRun
    /\ databases = <<>>
    /\ ordered_dbs = <<>>
    /\ warnings = <<>>
    /\ passes = 0
    /\ opc = "idle"
    /\ IdleSub /\ IdlePack /\ IdleMain

ProcessRecord ==
    /\ run.pc = "loop"
    /\ run.i <= Len(database)
    /\ \E uuids \in UuidSeqs : run' = LoopBody(run, database, config, uuids)
    /\ UNCHANGED <<database, config, run2, orderVars, subVars, packVars, main>>

Finish ==
    /\ run.pc = "loop"
    /\ run.i > Len(database)
    /\ \E uuid \in Uuids : run' = Sizing(run, config, uuid)
    /\ UNCHANGED <<database, config, run2, orderVars, subVars, packVars, main>>

Next == ProcessRecord \/ Finish

Spec == Init /\ [][Next]_vars

\* Two calls on the same database and configuration, one after the other.
InitDet ==
    /\ \E input \in Inputs : database = input[1] /\ config = input[2]
    /\ run \in {InitRun(config, uuid) : uuid \in Uuids}
    /\ run2 \in {InitRun(config, uuid) : uuid \in Uuids}
    /\ databases = <<>>
    /\ ordered_dbs = <<>>
    /\ warnings = <<>>
    /\ passes = 0
    /\ opc = "idle"
    /\ IdleSub /\ IdlePack /\ IdleMain

SecondProcessRecord ==
    /\ run.pc = "done"
    /\ run2.pc = "loop"
    /\ run2.i <= Len(database)
    /\ \E uuids \in UuidSeqs : run2' = LoopBody(run2, database, config, uuids)
    /\ UNCHANGED <<database, config, run, orderVars, subVars, packVars, main>>

SecondFinish ==
    /\ run.pc = "done"
    /\ run2.pc = "loop"
    /\ run2.i > Len(database)
    /\ \E uuid \in Uuids : run2' = Sizing(run2, config, uuid)
    /\ UNCHANGED <<database, config, run, orderVars, subVars, packVars, main>>

NextDet == ProcessRecord \/ Finish \/ SecondProcessRecord \/ SecondFinish

SpecDet == InitDet /\ [][NextDet]_vars

(***************************************************************************)
(* generate_bobfile_for_substitution                                       *)
(*                                                                         *)
(* A template is a file name: directory, root and extension.  The known    *)
(* displays map a display file name to the document found under it, of     *)
(* which the height and the width are read.  An instance is its macros.    *)
(*                                                                         *)
(* The locals of one call are a record:                                    *)
(*   pc                 "loop" | "done"                                    *)
(*   t, i               index of the template and, from 1, of the instance *)
(*                      to process next                                    *)
(*   current_x_pos, current_y_pos, max_col_width, hit_max_y_pos,           *)
(*   launcher_buttons   as in the source; a launcher button is known by    *)
(*                      its index in the screen                            *)
(*   screen             the widgets added to the Screen, in order          *)
(*   screen_width, screen_height   set when the loop is over               *)
(*   log                history: for each instance processed the template, *)
(*                      the instance index, the branch taken, the index of *)
(*                      the widget concerned and whether the cursor        *)
(*                      wrapped before or after the placement              *)
(***************************************************************************)

EmbedLevels == {"none", "single", "all"}

Templates ==
    {[dir |-> "", root |-> "a", ext |-> ".template"],
     [dir |-> "", root |-> "b", ext |-> ".template"],
     [dir |-> "dir/", root |-> "a", ext |-> ".template"]}

\* os.path.splitext(os.path.basename(template))[0] + ".bob"
template_to_bob(template) == [root |-> template.root, ext |-> ".bob"]

\* os.path.splitext(template)[0]
TemplateRoot(template) == [dir |-> template.dir, root |-> template.root]

\* The macros of the k-th instance of a template.
Instance(k) == [N |-> ToString(k)]

\* The documents a known display file name can stand for.
BobDocuments == {[height |-> 2, width |-> 4], [height |-> 6, width |-> 2]}

BobNames == {[root |-> "a", ext |-> ".bob"], [root |-> "b", ext |-> ".bob"]}

get_height_width_of_bobfile(bobfile) == <<bobfile.height, bobfile.width>>

\* The small configuration with an embed level.
SubConfig(format, embed) ==
    [embed |-> embed] @@ SmallConfig(format, 6, 3, 1, ("LED" :> 1))

SubConfigs == {SubConfig(f, e) : f \in TitleBarFormats, e \in EmbedLevels}

EmbeddedDisplay(name, file, x, y, width, height) ==
    [kind |-> "EmbeddedDisplay", name |-> name, file |-> file, x |-> x, y |-> y,
     width |-> width, height |-> height, macros |-> <<>>]

ActionButton(name, text, pv, x, y, width, height) ==
    [kind |-> "ActionButton", name |-> name, text |-> text, pv |-> pv,
     x |-> x, y |-> y, width |-> width, height |-> height, actions |-> <<>>]

\* button.action_open_display(file, target, description, macros)
action_open_display(button, file, target, description, macros) ==
    [button EXCEPT !.actions =
        Append(@, [file |-> file, target |-> target,
                   description |-> description, macros |-> macros])]

\* f"{os.path.splitext(template)[0]} {i + 1}", with i counted from 1 here
Description(template, i) == [root |-> TemplateRoot(template), n |-> ToString(i)]

\* The condition of the embed branch.
ShouldEmbed_AnyCount(template, template_instances, found, cfg) ==
    /\ template_to_bob(template) \in DOMAIN found
    /\ \/ cfg.embed = "all"
       \/ cfg.embed = "single"

ShouldEmbed(template, template_instances, found, cfg) ==
    /\ template_to_bob(template) \in DOMAIN found
    /\ \/ cfg.embed = "all"
       \/ cfg.embed = "single" /\ Len(template_instances) = 1

\* elif template in launcher_buttons
HasLauncher_Never(r, template) == FALSE

HasLauncher(r, template) == template \in DOMAIN r.launcher_buttons

\* config.max_screen_height + config.title_bar_heights[TitleBarFormat.FULL]
SubCeiling(cfg) == cfg.max_screen_height + cfg.title_bar_heights["full"]

\* config.widget_offset + config.title_bar_heights[TitleBarFormat.FULL]
SubMargin(cfg) == cfg.widget_offset + cfg.title_bar_heights["full"]

InitSubRun(cfg) ==
    [pc |-> "loop", t |-> 1, i |-> 1,
     screen_width |-> 0, screen_height |-> 0,
     max_col_width |-> 0, hit_max_y_pos |-> FALSE,
     current_x_pos |-> cfg.widget_offset,
     current_y_pos |-> cfg.widget_offset + cfg.title_bar_heights[cfg.title_bar_format],
     launcher_buttons |-> <<>>,
     screen |-> <<>>,
     log |-> <<>>]

\* The loop indices after one instance.
NextInstance(r, subst) ==
    IF r.i < Len(subst[r.t].instances)
    THEN [r EXCEPT !.i = r.i + 1]
    ELSE [r EXCEPT !.t = r.t + 1, !.i = 1]

\* The embed branch for one instance.
EmbedStep_OnlyFirst(r, template, instance, found, cfg, uuid) ==
    LET dims == get_height_width_of_bobfile(found[template_to_bob(template)])
        embed_height == dims[1] + cfg.widget_offset
        embed_width == dims[2] + cfg.widget_offset
        wrap == r.current_y_pos + embed_height > SubCeiling(cfg)
        x == IF wrap THEN r.current_x_pos + r.max_col_width + cfg.widget_offset
             ELSE r.current_x_pos
        y == IF wrap THEN SubMargin(cfg) ELSE r.current_y_pos
        col == IF wrap THEN 0 ELSE r.max_col_width
        embedded_display ==
            [EmbeddedDisplay(<<"uuid", uuid>>, template_to_bob(template),
                             x, y, embed_width, embed_height)
                EXCEPT !.macros = instance]
    IN IF r.i > 1
       THEN [r EXCEPT !.log = Append(@, [template |-> template, i |-> r.i,
                                         branch |-> "embed", widget |-> Len(r.screen),
                                         wrap_before |-> FALSE, wrap_after |-> FALSE])]
       ELSE [r EXCEPT !.current_x_pos = x,
                      !.current_y_pos = y + embed_height + cfg.widget_offset,
                      !.max_col_width = IF embed_width > col THEN embed_width ELSE col,
                      !.screen = Append(@, embedded_display),
                      !.log = Append(@, [template |-> template, i |-> r.i,
                                         branch |-> "embed",
                                         widget |-> Len(r.screen) + 1,
                                         wrap_before |-> wrap, wrap_after |-> FALSE])]

EmbedStep(r, template, instance, found, cfg, uuid) ==
    LET dims == get_height_width_of_bobfile(found[template_to_bob(template)])
        embed_height == dims[1] + cfg.widget_offset
        embed_width == dims[2] + cfg.widget_offset
        wrap == r.current_y_pos + embed_height > SubCeiling(cfg)
        x == IF wrap THEN r.current_x_pos + r.max_col_width + cfg.widget_offset
             ELSE r.current_x_pos
        y == IF wrap THEN SubMargin(cfg) ELSE r.current_y_pos
        col == IF wrap THEN 0 ELSE r.max_col_width
        embedded_display ==
            [EmbeddedDisplay(<<"uuid", uuid>>, template_to_bob(template),
                             x, y, embed_width, embed_height)
                EXCEPT !.macros = instance]
    IN [r EXCEPT !.current_x_pos = x,
                 !.current_y_pos = y + embed_height + cfg.widget_offset,
                 !.max_col_width = IF embed_width > col THEN embed_width ELSE col,
                 !.screen = Append(@, embedded_display),
                 !.log = Append(@, [template |-> template, i |-> r.i, branch |-> "embed",
                                    widget |-> Len(r.screen) + 1,
                                    wrap_before |-> wrap, wrap_after |-> FALSE])]

\* The branch of an instance whose template has a launcher button already.
AttachStep(r, template, instance) ==
    LET k == r.launcher_buttons[template]
    IN [r EXCEPT !.screen[k] =
                     action_open_display(@, template_to_bob(template), "tab",
                                         Description(template, r.i), instance),
                 !.log = Append(@, [template |-> template, i |-> r.i, branch |-> "attach",
                                    widget |-> k,
                                    wrap_before |-> FALSE, wrap_after |-> FALSE])]

\* The branch that creates the launcher button of a template.
LauncherStep(r, template, instance, cfg, uuid) ==
    LET button ==
            action_open_display(
                ActionButton(<<"uuid", uuid>>, TemplateRoot(template), <<>>,
                             r.current_x_pos, r.current_y_pos,
                             cfg.default_widget_width, cfg.default_widget_height),
                template_to_bob(template), "tab", Description(template, r.i), instance)
        y == r.current_y_pos + cfg.default_widget_height + cfg.widget_offset
        col == IF cfg.default_widget_width > r.max_col_width
               THEN cfg.default_widget_width ELSE r.max_col_width
        wrap == y > SubCeiling(cfg)
    IN [r EXCEPT !.launcher_buttons = (template :> (Len(r.screen) + 1)) @@ @,
                 !.screen = Append(@, button),
                 !.hit_max_y_pos = IF wrap THEN TRUE ELSE @,
                 !.current_y_pos = IF wrap THEN SubMargin(cfg) ELSE y,
                 !.current_x_pos = IF wrap THEN @ + col + cfg.widget_offset ELSE @,
                 !.max_col_width = IF wrap THEN 0 ELSE col,
                 !.log = Append(@, [template |-> template, i |-> r.i, branch |-> "launcher",
                                    widget |-> Len(r.screen) + 1,
                                    wrap_before |-> FALSE, wrap_after |-> wrap])]

\* After the loops: the size of the screen and the title bar.
SubSizing(r, cfg, uuid) ==
    LET screen_height == IF r.hit_max_y_pos
                         THEN cfg.max_screen_height + cfg.widget_offset
                         ELSE r.current_y_pos + cfg.widget_offset
        screen_width == r.current_x_pos + r.max_col_width + cfg.widget_offset
        title_bar == add_title_bar(cfg, screen_width - cfg.widget_offset, uuid)
    IN [r EXCEPT !.pc = "done",
                 !.screen = IF title_bar # NoWidget THEN Append(@, title_bar) ELSE @,
                 !.screen_height = screen_height,
                 !.screen_width = screen_width]

\* The items of a substitution dict: distinct templates, each with the
\* list of its instances, which find_epics_subs never leaves empty.
InputSubstitution(ts, cs) ==
    [k \in DOMAIN ts |->
        [template |-> ts[k], instances |-> [j \in 1..cs[k] |-> Instance(j)]]]

\* A call on a substitution of at most max_templates templates with at most
\* max_instances instances each, the known displays being among documents.
InitSubWith(max_templates, max_instances, documents) ==
    /\ \E n \in 0..max_templates :
         \E ts \in [1..n -> Templates] : \E cs \in [1..n -> 1..max_instances] :
            /\ \A j, k \in 1..n : ts[j] = ts[k] => j = k
            /\ substitution = InputSubstitution(ts, cs)
    /\ \E names \in SUBSET BobNames : found_bobfiles \in [names -> documents]
    /\ config \in SubConfigs
    /\ sub = InitSubRun(config)
    /\ database = <<>>
    /\ run = IdleRun
    /\ run2 = IdleRun
    /\ databases = <<>>
    /\ ordered_dbs = <<>>
    /\ warnings = <<>>
    /\ passes = 0
    /\ opc = "idle"
    /\ IdlePack /\ IdleMain

InitSub == InitSubWith(MaxTemplates, MaxInstances, BobDocuments)

\* The template and the instance the loops are at.
CurrentTemplate == substitution[sub.t].template
CurrentInstances == substitution[sub.t].instances

SubEmbed ==
    /\ sub.pc = "loop"
    /\ sub.t <= Len(substitution)
    /\ ShouldEmbed(CurrentTemplate, CurrentInstances, found_bobfiles, config)
    /\ \E uuid \in Uuids :
          sub' = NextInstance(EmbedStep(sub, CurrentTemplate, CurrentInstances[sub.i],
                                        found_bobfiles, config, uuid), substitution)
    /\ UNCHANGED <<substitution, found_bobfiles, layoutVars, orderVars, packVars, main>>

SubAttach ==
    /\ sub.pc = "loop"
    /\ sub.t <= Len(substitution)
    /\ ~ ShouldEmbed(CurrentTemplate, CurrentInstances, found_bobfiles, config)
    /\ HasLauncher(sub, CurrentTemplate)
    /\ sub' = NextInstance(AttachStep(sub, CurrentTemplate, CurrentInstances[sub.i]),
                           substitution)
    /\ UNCHANGED <<substitution, found_bobfiles, layoutVars, orderVars, packVars, main>>

SubLauncher ==
    /\ sub.pc = "loop"
    /\ sub.t <= Len(substitution)
    /\ ~ ShouldEmbed(CurrentTemplate, CurrentInstances, found_bobfiles, config)
    /\ ~ HasLauncher(sub, CurrentTemplate)
    /\ \E uuid \in Uuids :
          sub' = NextInstance(LauncherStep(sub, CurrentTemplate, CurrentInstances[sub.i],
                                           config, uuid), substitution)
    /\ UNCHANGED <<substitution, found_bobfiles, layoutVars, orderVars, packVars, main>>

SubFinish ==
    /\ sub.pc = "loop"
    /\ sub.t > Len(substitution)
    /\ \E uuid \in Uuids : sub' = SubSizing(sub, config, uuid)
    /\ UNCHANGED <<substitution, found_bobfiles, layoutVars, orderVars, packVars, main>>

NextSub == SubEmbed \/ SubAttach \/ SubLauncher \/ SubFinish

SpecSub == InitSub /\ [][NextSub]_vars

(***************************************************************************)
(* Both layout cursors: one call of generate_bobfile_for_db or one call of *)
(* generate_bobfile_for_substitution, which runs on to its return.         *)
(***************************************************************************)

\* A call of generate_bobfile_for_db on a small database of at most
\* MaxCursorRecords records, or on the long uniform one.
InitCursorDb ==
    /\ \/ database \in SmallDatabasesUpTo(MaxCursorRecords) /\ config \in SmallConfigs
       \/ database = UniformDatabase /\ config \in DefaultConfigs
    /\ run \in {InitRun(config, uuid) : uuid \in Uuids}
    /\ run2 = IdleRun
    /\ databases = <<>>
    /\ ordered_dbs = <<>>
    /\ warnings = <<>>
    /\ passes = 0
    /\ opc = "idle"
    /\ IdleSub /\ IdlePack /\ IdleMain

InitCursors ==
    \/ InitCursorDb
    \/ InitSubWith(MaxCursorTemplates, MaxCursorInstances, {[height |-> 6, width |-> 2]})

NextCursors ==
    \/ ProcessRecord
    \/ Finish
    \/ SubEmbed
    \/ SubAttach
    \/ SubLauncher
    \/ SubFinish

SpecCursors == InitCursors /\ [][NextCursors]_vars /\ WF_vars(NextCursors)

(***************************************************************************)
(* pack_close_to_square                                                    *)
(*                                                                         *)
(* A size is <<width, height>>, a position <<x, y>>.  The locals of one    *)
(* call are a record:                                                      *)
(*   pc                 "loop" | "returned" | "raised"                     *)
(*   height, width, iteration, padded_rectangle_sizes,                     *)
(*   packed_x_y_positions   as in the source                               *)
(*   warnings           number of logger.warning calls                     *)
(***************************************************************************)

InitialHeight == 100
InitialWidth == 100
Increment == 100
MaxIterations == 1000

RectangleSizes == {<<50, 40>>, <<150, 80>>, <<80, 250>>}
MaxHeights == {50, 150, 260, 300}
Paddings == {0, 10}

\* [(width + padding, height + padding) for width, height in rectangle_sizes]
Padded(rectangle_sizes, padding) ==
    [k \in DOMAIN rectangle_sizes |->
        <<rectangle_sizes[k][1] + padding, rectangle_sizes[k][2] + padding>>]

\* The growth of the box before an attempt: <<height, width>>.
Grow(height, width, max_height) ==
    IF height < width /\ height + Increment <= max_height
    THEN <<height + Increment, width>>
    ELSE <<height, width + Increment>>

\* if iteration > 1000: raise RuntimeError
Exhausted_AtLimit(iteration) == iteration >= MaxIterations

Exhausted(iteration) == iteration > MaxIterations

RECURSIVE SumOf(_, _, _)
SumOf(sizes, dim, T) ==
    IF T = {} THEN 0
    ELSE LET k == CHOOSE k \in T : TRUE
         IN sizes[k][dim] + SumOf(sizes, dim, T \ {k})

\* Two placed rectangles share no interior point.
Disjoint(sizes, p, j, k) ==
    \/ p[j][1] + sizes[j][1] <= p[k][1]
    \/ p[k][1] + sizes[k][1] <= p[j][1]
    \/ p[j][2] + sizes[j][2] <= p[k][2]
    \/ p[k][2] + sizes[k][2] <= p[j][2]

\* A list of positions puts the rectangles inside the box, without overlap.
ValidPacking(sizes, p, width, height) ==
    /\ \A k \in DOMAIN sizes :
          /\ p[k][1] >= 0 /\ p[k][1] + sizes[k][1] <= width
          /\ p[k][2] >= 0 /\ p[k][2] + sizes[k][2] <= height
    /\ \A j, k \in DOMAIN sizes : j # k => Disjoint(sizes, p, j, k)

\* rpack.pack(sizes, max_width, max_height): the packings it can return, an
\* empty set when it raises PackingImpossibleError.  A rectangle pushed to
\* the left and to the bottom has as x a sum of widths of other rectangles
\* and as y a sum of heights of other rectangles, so these positions decide
\* whether a packing exists.
RPack(sizes, width, height) ==
    IF \E k \in DOMAIN sizes : sizes[k][1] > width \/ sizes[k][2] > height
    THEN {}
    ELSE LET n == Len(sizes)
             Corners(k) ==
                 {<<SumOf(sizes, 1, T), SumOf(sizes, 2, U)>> :
                      T \in SUBSET ((1..n) \ {k}), U \in SUBSET ((1..n) \ {k})}
             Candidates == {p \in [1..n -> UNION {Corners(k) : k \in 1..n}] :
                               \A k \in 1..n : p[k] \in Corners(k)}
         IN {p \in Candidates : ValidPacking(sizes, p, width, height)}

InitPackRun(rectangle_sizes, padding) ==
    [pc |-> "loop",
     padded_rectangle_sizes |-> Padded(rectangle_sizes, padding),
     height |-> InitialHeight, width |-> InitialWidth,
     iteration |-> 0, warnings |-> 0,
     packed_x_y_positions |-> <<>>]

InitPack ==
    /\ \E n \in 1..MaxRects : \E sizes \in [1..n -> RectangleSizes] :
         \E max_height \in MaxHeights : \E padding \in Paddings :
            pack_args = [rectangle_sizes |-> sizes, max_height |-> max_height,
                         padding |-> padding]
    /\ pack = InitPackRun(pack_args.rectangle_sizes, pack_args.padding)
    /\ database = <<>>
    /\ config = [title_bar_format |-> "idle"]
    /\ run = IdleRun
    /\ run2 = IdleRun
    /\ databases = <<>>
    /\ ordered_dbs = <<>>
    /\ warnings = <<>>
    /\ passes = 0
    /\ opc = "idle"
    /\ IdleSub /\ IdleMain

\* The box of the next attempt.
NextBox == Grow(pack.height, pack.width, pack_args.max_height)

\* An iteration of the while loop in which rpack.pack returns.
PackSolved ==
    /\ pack.pc = "loop"
    /\ \E p \in RPack(pack.padded_rectangle_sizes, NextBox[2], NextBox[1]) :
          pack' = [pack EXCEPT !.pc = "returned",
                               !.height = NextBox[1], !.width = NextBox[2],
                               !.packed_x_y_positions = p]
    /\ UNCHANGED <<pack_args, orderVars, layoutVars, subVars, main>>

\* An iteration of the while loop in which rpack.pack raises.
PackImpossible ==
    /\ pack.pc = "loop"
    /\ RPack(pack.padded_rectangle_sizes, NextBox[2], NextBox[1]) = {}
    /\ pack' = [pack EXCEPT !.height = NextBox[1], !.width = NextBox[2],
                            !.iteration = @ + 1,
                            !.pc = IF Exhausted(pack.iteration + 1)
                                   THEN "raised" ELSE "loop",
                            !.warnings = IF Exhausted(pack.iteration + 1)
                                         THEN @ ELSE @ + 1]
    /\ UNCHANGED <<pack_args, orderVars, layoutVars, subVars, main>>

NextPack == PackSolved \/ PackImpossible

SpecPack == InitPack /\ [][NextPack]_vars

(***************************************************************************)
(* main, from the search for the databases on                              *)
(*                                                                         *)
(* The units are found in a directory, so find_epics_dbs_and_templates     *)
(* ends with order_dbs_by_includes: databases, ordered_dbs, warnings,      *)
(* passes and opc are the variables of that call.  The locals of main are  *)
(* a record:                                                               *)
(*   pc                 "dbs" | "subs" | "done" | "failed"                 *)
(*   k, s               index of the next unit and of the next             *)
(*                      substitution                                       *)
(*   written_bobfiles   as in the source: display file name to where the   *)
(*                      display is from                                    *)
(*   substitutions      the result of find_epics_subs, as items in order   *)
(*   events             history: the calls of generate_bobfile_for_db and  *)
(*                      generate_bobfile_for_substitution, in order; a     *)
(*                      call for a substitution with the known displays it *)
(*                      is given and the result of its lookup for each of  *)
(*                      its templates                                      *)
(***************************************************************************)

\* os.path.basename(os.path.join(args.output_path, f"{name}.bob"))
BobOf(name) == [root |-> name, ext |-> ".bob"]

TemplateOf(name) == [dir |-> "", root |-> name, ext |-> ".template"]

\* The template lists of a substitution when there are n units.
SubstitutionTemplates(n) ==
    {<<TemplateOf(DbName(1))>>, <<TemplateOf(DbName(n)), TemplateOf(UnknownName)>>}

\* find_bobfiles_in_search_path(config.bobfile_search_path)
SearchPathBobfiles == {<<>>, (BobOf(UnknownName) :> "search_path")}

InitMainRun(found, subs) ==
    [pc |-> "dbs", k |-> 1, s |-> 1,
     written_bobfiles |-> found,
     substitutions |-> subs,
     events |-> <<>>]

InitMain ==
    /\ \E n \in 1..MaxMainUnits : \E f \in [1..n -> IncludeSets(n)] :
          /\ databases = InputDatabases(n, f)
          /\ \E m \in 0..MaxSubs : \E ts \in [1..m -> SubstitutionTemplates(n)] :
             \E found \in SearchPathBobfiles :
                main = InitMainRun(found,
                          [j \in 1..m |-> [name |-> <<"sub", j>>, templates |-> ts[j]]])
    /\ ordered_dbs = <<>>
    /\ warnings = <<>>
    /\ passes = 0
    /\ opc = "running"
    /\ database = <<>>
    /\ config = [title_bar_format |-> "idle"]
    /\ run = IdleRun
    /\ run2 = IdleRun
    /\ IdleSub /\ IdlePack

\* for name in databases: the loop is over
DbLoopDone_AfterFirst(m) == m.k > 1

DbLoopDone(m) == m.k > Len(ordered_dbs)

\* One iteration of the loop over the units: generate, write, register.
MainGenerateDb ==
    /\ opc = "returned"
    /\ main.pc = "dbs"
    /\ ~ DbLoopDone(main)
    /\ LET name == ordered_dbs[main.k]
       IN main' = [main EXCEPT
                     !.k = @ + 1,
                     !.written_bobfiles = (BobOf(name) :> "output") @@ @,
                     !.events = Append(@, [op |-> "db", name |-> name])]
    /\ UNCHANGED <<orderVars, layoutVars, subVars, packVars>>

\* substitutions = find_epics_subs(args.input_path)
MainFindSubs ==
    /\ opc = "returned"
    /\ main.pc = "dbs"
    /\ DbLoopDone(main)
    /\ main' = [main EXCEPT !.pc = "subs"]
    /\ UNCHANGED <<orderVars, layoutVars, subVars, packVars>>

\* One iteration of the loop over the substitutions.
MainGenerateSubstitution ==
    /\ main.pc = "subs"
    /\ main.s <= Len(main.substitutions)
    /\ LET item == main.substitutions[main.s]
       IN main' = [main EXCEPT
                     !.s = @ + 1,
                     !.written_bobfiles = (BobOf(item.name) :> "output") @@ @,
                     !.events = Append(@,
                         [op |-> "sub", name |-> item.name,
                          found |-> DOMAIN main.written_bobfiles,
                          lookups |-> [j \in DOMAIN item.templates |->
                                          template_to_bob(item.templates[j])
                                              \in DOMAIN main.written_bobfiles]])]
    /\ UNCHANGED <<orderVars, layoutVars, subVars, packVars>>

MainFinish ==
    /\ main.pc = "subs"
    /\ main.s > Len(main.substitutions)
    /\ main' = [main EXCEPT !.pc = "done"]
    /\ UNCHANGED <<orderVars, layoutVars, subVars, packVars>>

\* The RuntimeError of order_dbs_by_includes ends main.
MainFail ==
    /\ opc = "raised"
    /\ main.pc = "dbs"
    /\ main' = [main EXCEPT !.pc = "failed"]
    /\ UNCHANGED <<orderVars, layoutVars, subVars, packVars>>

NextMain ==
    \/ OrderPass
    \/ OrderReturn
    \/ MainGenerateDb
    \/ MainFindSubs
    \/ MainGenerateSubstitution
    \/ MainFinish
    \/ MainFail

SpecMain == InitMain /\ [][NextMain]_vars

(***************************************************************************)
(* Properties of order_dbs_by_includes                                     *)
(***************************************************************************)

\* The include graph restricted to the units of the input.
KnownEdges ==
    {e \in Keys(databases) \X Keys(databases) :
        \E k \in 1..Len(databases) :
            /\ databases[k].name = e[1]
            /\ \E inc \in databases[k].includes : SplitExt(inc)[1] = e[2]}

RECURSIVE Closure(_, _)
Closure(R, k) ==
    IF k = 0 THEN R
    ELSE Closure(R \cup {e \in Keys(databases) \X Keys(databases) :
                            \E b \in Keys(databases) :
                                <<e[1], b>> \in R /\ <<b, e[2]>> \in KnownEdges},
                 k - 1)

\* a reaches b by one or more known includes
Reaches == Closure(KnownEdges, Len(databases))

Acyclic == \A a \in Keys(databases) : <<a, a>> \notin Reaches

HasLongCycle ==
    \E a, b \in Keys(databases) : a # b /\ <<a, b>> \in Reaches /\ <<b, a>> \in Reaches

HasSelfInclude == \E a \in Keys(databases) : <<a, a>> \in KnownEdges

HasUnknownInclude(item) ==
    \E inc \in item.includes : SplitExt(inc)[1] \notin Keys(databases)

Position(ordered, name) == CHOOSE k \in 1..Len(ordered) : ordered[k] = name

\* C1: for an acyclic include graph the returned ordering holds every key
\* exactly once and every unit after each of its includes that is a key.
C1_OrderRespectsKnownIncludes ==
    (opc = "returned" /\ Acyclic) =>
        /\ Len(ordered_dbs) = Len(databases)
        /\ \A name \in Keys(databases) :
              Cardinality({k \in 1..Len(ordered_dbs) : ordered_dbs[k] = name}) = 1
        /\ \A e \in KnownEdges :
              Position(ordered_dbs, e[2]) < Position(ordered_dbs, e[1])

\* C2: a cycle of two or more units of the input makes the call raise the
\* circular-include error: it never returns an ordering.
C2_LongCycleRaises ==
    (opc # "running" /\ HasLongCycle) => opc = "raised"

\* C3: every unit with an include that is no key of the input is resolved
\* (the error is never raised with such a unit unresolved) and exactly one
\* warning is logged for it, which names the missing include.
C3_UnknownIncludeResolvedWithOneWarning ==
    opc \in {"returned", "raised"} =>
        \A k \in 1..Len(databases) :
            HasUnknownInclude(databases[k]) =>
                /\ InOrdered(ordered_dbs, databases[k].name)
                /\ Cardinality({j \in 1..Len(warnings) :
                                    warnings[j].db = databases[k].name}) = 1
                /\ \A j \in 1..Len(warnings) :
                      warnings[j].db = databases[k].name =>
                          \E inc \in warnings[j].includes :
                              /\ inc \in databases[k].includes
                              /\ SplitExt(inc)[1] \notin Keys(databases)

C3_Witness ==
    /\ opc = "returned"
    /\ Len(databases) >= 2
    /\ \E k \in 1..Len(databases) :
          /\ HasUnknownInclude(databases[k])
          /\ Cardinality(databases[k].includes) = 1
    /\ Len(warnings) = 1
    /\ passes >= 2

\* C4: a unit that includes itself makes the call raise the circular-include
\* error.
C4_SelfIncludeRaises ==
    (opc # "running" /\ HasSelfInclude) => opc = "raised"

(***************************************************************************)
(* Properties of generate_bobfile_for_db                                   *)
(***************************************************************************)

Mapped(rtyp) == rtyp \in DOMAIN config.rtyp_to_widget_map

\* What a document shows: kind, name, position and size of every element,
\* and the size of the document.
Spatial(r) ==
    [elements |-> [k \in 1..Len(r.screen) |->
                     <<r.screen[k].kind, r.screen[k].name, r.screen[k].x,
                       r.screen[k].y, r.screen[k].width, r.screen[k].height>>],
     width |-> r.screen_width,
     height |-> r.screen_height]

\* C5: two calls on the same records and configuration give the same
\* sequence of element kinds, names, positions and sizes and the same
\* document size, whatever uuids the calls drew.
C5_LayoutDeterministic ==
    (run.pc = "done" /\ run2.pc = "done") => Spatial(run) = Spatial(run2)

C5_Witness ==
    /\ run.pc = "done"
    /\ run2.pc = "done"
    /\ Len(run.groups) >= 2
    /\ \E k \in 1..Len(run.groups) : run.groups[k].len = 3
    /\ run.current_x_pos # config.widget_offset

\* C6: the first group is at (offset, offset + title bar height); the group
\* after one at (x, y) of column width c is at (x, y + height + offset) if
\* that y is at most max_screen_height - title bar height, and else at
\* (x + c * (width + offset), start y); with the default configuration the
\* groups are at (10,30), (10,60), ... (10,1170) and then (330,30), ...
C6_GridCursor ==
    run.pc \in {"loop", "done"} =>
    LET start_y == config.widget_offset + config.title_bar_heights[config.title_bar_format]
        ceiling == config.max_screen_height - config.title_bar_heights[config.title_bar_format]
        step == config.default_widget_height + config.widget_offset
        n == Len(run.groups)
        At(k) == IF k <= n THEN <<run.groups[k].x, run.groups[k].y>>
                 ELSE <<run.current_x_pos, run.current_y_pos>>
    IN /\ At(1) = <<config.widget_offset, start_y>>
       /\ \A k \in 1..n :
            At(k + 1) = IF run.groups[k].y + step <= ceiling
                        THEN <<run.groups[k].x, run.groups[k].y + step>>
                        ELSE <<run.groups[k].x + run.groups[k].col
                                 * (config.default_widget_width + config.widget_offset),
                               start_y>>
       /\ config = DefaultConfig("minimal") =>
            \A k \in 1..n :
                (\A j \in 1..k : run.groups[j].len = 2) =>
                    At(k) = <<10 + 320 * ((k - 1) \div 39), 30 + 30 * ((k - 1) % 39)>>

C6_Witness ==
    /\ config = DefaultConfig("minimal")
    /\ Len(run.groups) >= 40
    /\ run.groups[39].x = 10 /\ run.groups[39].y = 1170
    /\ run.groups[40].x = 330 /\ run.groups[40].y = 30

\* C7 (as stated): a record X and the record X + suffix are merged into one
\* group of three elements only if the type of X + suffix has a widget;
\* otherwise X + suffix is laid out as a group of its own.
C7_UnmappedReadbackOwnGroup ==
    run.pc = "done" =>
        \A k \in 1..Len(run.groups) :
            LET g == run.groups[k]
                rb == g.record \o config.readback_suffix
            IN InDatabase(database, rb) =>
                 IF Mapped(Lookup(database, rb).rtyp)
                 THEN TRUE
                 ELSE /\ g.len = 2
                      /\ \E j \in 1..Len(run.groups) : run.groups[j].record = rb

\* C7 (amended): the group of a record X has three elements, the third bound
\* to X + suffix, exactly if X + suffix is a record of the unit whose type
\* has a widget, and else two elements; a record whose type has no widget,
\* readback or not, has no group and no element in the document.
C7_ReadbackMergedIffMapped ==
    run.pc \in {"loop", "done"} =>
    /\ \A k \in 1..Len(run.groups) :
          LET g == run.groups[k]
              rb == g.record \o config.readback_suffix
              merged == /\ g.len = 3
                        /\ g.readback = rb
                        /\ run.screen[g.first + 2].pv = rb
          IN /\ merged <=> (InDatabase(database, rb) /\ Mapped(Lookup(database, rb).rtyp))
             /\ ~ merged => (g.len = 2 /\ g.readback = <<>>)
    /\ run.pc = "done" =>
          \A k \in 1..Len(database) :
              ~ Mapped(database[k].rtyp) =>
                  /\ \A j \in 1..Len(run.groups) : run.groups[j].record # database[k].name
                  /\ \A j \in 1..Len(run.screen) : run.screen[j].pv # database[k].name

C7_Witness ==
    /\ run.pc = "done"
    /\ \E k \in 1..Len(run.groups) :
          LET rb == run.groups[k].record \o config.readback_suffix
          IN /\ InDatabase(database, rb)
             /\ ~ Mapped(Lookup(database, rb).rtyp)
             /\ run.groups[k].len = 2
             /\ Len(run.screen) >= run.groups[k].first + 1

\* C8: a group is a label, the widget of the record and, only with a
\* readback, the widget of the readback: 2 or 3 elements, all at the y of
\* the cursor, the label at the x of the cursor, every later element at the
\* x of the one before plus its width plus the offset.
C8_GroupElementsChained ==
    run.pc \in {"loop", "done"} =>
    \A k \in 1..Len(run.groups) :
        LET g == run.groups[k]
            el(j) == run.screen[g.first + j - 1]
        IN /\ g.len = IF g.readback = <<>> THEN 2 ELSE 3
           /\ el(1).kind = "Label"
           /\ el(1).x = g.x
           /\ el(2).pv = g.record
           /\ g.len = 3 => el(3).pv = g.readback
           /\ \A j \in 1..g.len : el(j).y = g.y
           /\ \A j \in 1..(g.len - 1) :
                 el(j + 1).x = el(j).x + el(j).width + config.widget_offset

\* C9: no record name is bound to more than one widget of the document.
C9_RecordBoundOnce ==
    run.pc \in {"loop", "done"} =>
    \A k \in 1..Len(database) :
        Cardinality({j \in 1..Len(run.screen) : run.screen[j].pv = database[k].name}) <= 1

\* Groups j and k, at the same cursor x, overlap vertically.
Overlap(j, k) ==
    /\ run.groups[j].x = run.groups[k].x
    /\ run.groups[j].y < run.groups[k].y + config.default_widget_height
    /\ run.groups[k].y < run.groups[j].y + config.default_widget_height

\* C10 (as stated): with positive element height and non-negative offset,
\* two groups at the same cursor x occupy disjoint intervals [y, y + height).
C10_ColumnGroupsDisjoint ==
    (run.pc \in {"loop", "done"}
        /\ config.default_widget_height > 0 /\ config.widget_offset >= 0) =>
    \A j, k \in 1..Len(run.groups) : j # k => ~ Overlap(j, k)

\* C10 (amended): the same, for configurations that also have a positive
\* default element width.
C10_ColumnGroupsDisjointPositiveWidth ==
    (run.pc \in {"loop", "done"}
        /\ config.default_widget_height > 0 /\ config.widget_offset >= 0
        /\ config.default_widget_width > 0) =>
    \A j, k \in 1..Len(run.groups) : j # k => ~ Overlap(j, k)

C10_Witness ==
    /\ run.pc = "done"
    /\ config.default_widget_width > 0
    /\ \E j, k, m \in 1..Len(run.groups) :
          /\ j # k
          /\ run.groups[j].x = run.groups[k].x
          /\ run.groups[m].x # run.groups[j].x

\* The usable height ceiling and the y of the top of a column.
Ceiling == config.max_screen_height - config.title_bar_heights[config.title_bar_format]
StartY == config.widget_offset + config.title_bar_heights[config.title_bar_format]

\* C11 (as stated): the cursor y at which a group is placed never exceeds
\* the ceiling, max_screen_height minus the title bar height.
C11_GroupYBelowCeiling ==
    run.pc \in {"loop", "done"} =>
        \A k \in 1..Len(run.groups) : run.groups[k].y <= Ceiling

\* C11 (amended): the same, and for the cursor after the last group too,
\* in every configuration whose start y is not above the ceiling.
C11_GroupYBelowCeilingWhenStartFits ==
    (run.pc \in {"loop", "done"} /\ StartY <= Ceiling) =>
        /\ \A k \in 1..Len(run.groups) : run.groups[k].y <= Ceiling
        /\ run.current_y_pos <= Ceiling

C11_Witness ==
    /\ run.pc = "done"
    /\ StartY <= Ceiling
    /\ \E j, k \in 1..Len(run.groups) :
          /\ run.groups[j].y > StartY
          /\ run.groups[j].y + config.default_widget_height + config.widget_offset > Ceiling
          /\ run.groups[k].x # config.widget_offset

\* C16: a record whose type has no widget is skipped with a warning: the
\* step adds no element and leaves the cursor, the column width, the
\* processed names and the name counters as they are; the loop goes on, and
\* when it is over every record whose type has a widget has been processed.
C16_UnsupportedRecordSkipped ==
    [][/\ (run.pc = "loop" /\ run.i <= Len(database)
              /\ ~ Mapped(database[run.i].rtyp)) =>
            /\ run'.pc = "loop"
            /\ run'.i = run.i + 1
            /\ run'.unsupported = Append(run.unsupported, database[run.i].name)
            /\ run'.screen = run.screen
            /\ run'.groups = run.groups
            /\ run'.current_x_pos = run.current_x_pos
            /\ run'.current_y_pos = run.current_y_pos
            /\ run'.col_width_widgets = run.col_width_widgets
            /\ run'.records_seen = run.records_seen
            /\ run'.widget_counters = run.widget_counters
       /\ (run.pc = "loop" /\ run'.pc = "done") =>
            \A k \in 1..Len(database) :
                Mapped(database[k].rtyp) => Seen(run'.records_seen, database[k].name)
      ]_vars

C16_Witness ==
    /\ run.pc = "done"
    /\ Len(run.unsupported) >= 1
    /\ \E j, k \in 1..Len(database) :
          /\ j < k
          /\ ~ Mapped(database[j].rtyp)
          /\ \E g \in 1..Len(run.groups) : run.groups[g].record = database[k].name

\* A column wrap occurred after some group of the run.
WrapOccurred ==
    \E k \in 1..Len(run.groups) :
        run.groups[k].y + config.default_widget_height + config.widget_offset > Ceiling

\* C18: the document is as wide as the final cursor x plus the tracked
\* group size of the last column times (width + offset), and as high as
\* max_screen_height + offset if a column wrap occurred, else as the final
\* cursor y + offset.
C18_DocumentSize ==
    run.pc = "done" =>
        /\ run.screen_width =
              run.current_x_pos + run.col_width_widgets
                  * (config.default_widget_width + config.widget_offset)
        /\ run.screen_height =
              IF WrapOccurred THEN config.max_screen_height + config.widget_offset
              ELSE run.current_y_pos + config.widget_offset

(***************************************************************************)
(* Properties of generate_bobfile_for_substitution                         *)
(***************************************************************************)

\* The instances of a template of the substitution.
InstancesOf(template) ==
    LET k == CHOOSE k \in 1..Len(substitution) : substitution[k].template = template
    IN substitution[k].instances

\* The log entries of the instances of a template that took a branch.
Entries(r, template, branch) ==
    {k \in 1..Len(r.log) : r.log[k].template = template /\ r.log[k].branch = branch}

\* The widgets of a kind on the screen.
OfKind(r, kind) == {k \in 1..Len(r.screen) : r.screen[k].kind = kind}

\* C13: an instance is embedded exactly when a known display exists for its
\* template and the embed level is all, or is single and the template has
\* one instance; the embedded displays of the screen are those of the
\* instances embedded, so with level none or no known display there is none.
C13_EmbedDecision ==
    sub.pc \in {"loop", "done"} =>
        /\ \A k \in 1..Len(sub.log) :
              LET entry == sub.log[k]
              IN /\ entry.branch = "embed" <=>
                       /\ template_to_bob(entry.template) \in DOMAIN found_bobfiles
                       /\ \/ config.embed = "all"
                          \/ /\ config.embed = "single"
                             /\ Len(InstancesOf(entry.template)) = 1
                 /\ entry.branch = "embed" <=>
                       sub.screen[entry.widget].kind = "EmbeddedDisplay"
        /\ Cardinality(OfKind(sub, "EmbeddedDisplay")) =
              Cardinality({k \in 1..Len(sub.log) : sub.log[k].branch = "embed"})
        /\ (config.embed = "none" \/ DOMAIN found_bobfiles = {}) =>
              OfKind(sub, "EmbeddedDisplay") = {}

C13_Witness ==
    /\ sub.pc = "done"
    /\ config.embed = "single"
    /\ \E j, k \in 1..Len(sub.log) :
          /\ sub.log[j].branch = "embed"
          /\ sub.log[k].branch = "launcher"
          /\ template_to_bob(sub.log[k].template) \in DOMAIN found_bobfiles
          /\ Len(InstancesOf(sub.log[k].template)) = 2

\* The launcher button of a template that is not embedded, once n of its
\* instances are processed: one button, created at the first instance, of
\* the default size, with one action per instance, in instance order.
LauncherWellFormed(r, template, n) ==
    /\ Cardinality(Entries(r, template, "launcher")) = 1
    /\ Cardinality(Entries(r, template, "attach")) = n - 1
    /\ \A e \in Entries(r, template, "launcher") :
          LET button == r.screen[r.log[e].widget]
          IN /\ r.log[e].i = 1
             /\ button.kind = "ActionButton"
             /\ button.width = config.default_widget_width
             /\ button.height = config.default_widget_height
             /\ Len(button.actions) = n
             /\ \A j \in 1..n :
                   /\ button.actions[j].macros = InstancesOf(template)[j]
                   /\ button.actions[j].file = template_to_bob(template)
             /\ \A a \in Entries(r, template, "attach") : r.log[a].widget = r.log[e].widget

\* The number of instances of the k-th template that are processed.
Processed(r, k) ==
    IF k < r.t THEN Len(substitution[k].instances)
    ELSE IF k = r.t THEN r.i - 1 ELSE 0

NotEmbedded(template) ==
    ~ (/\ template_to_bob(template) \in DOMAIN found_bobfiles
       /\ \/ config.embed = "all"
          \/ config.embed = "single" /\ Len(InstancesOf(template)) = 1)

\* C14: a template that is not embedded gets one launcher button, at its
\* first instance, of the default size, with one open-display action per
\* instance in instance order; the number of action buttons is the number
\* of such templates; the step of a second or later instance adds no widget
\* and leaves the cursor and the column width as they are.
C14_OneLauncherPerTemplate ==
    [][/\ sub'.pc \in {"loop", "done"} =>
            /\ \A k \in 1..Len(substitution) :
                  (NotEmbedded(substitution[k].template) /\ Processed(sub', k) >= 1) =>
                      LauncherWellFormed(sub', substitution[k].template, Processed(sub', k))
            /\ Cardinality(OfKind(sub', "ActionButton")) =
                  Cardinality({k \in 1..Len(substitution) :
                                  /\ NotEmbedded(substitution[k].template)
                                  /\ Processed(sub', k) >= 1})
       /\ (/\ sub.pc = "loop"
           /\ sub.t <= Len(substitution)
           /\ NotEmbedded(substitution[sub.t].template)
           /\ sub.i >= 2) =>
            /\ Len(sub'.screen) = Len(sub.screen)
            /\ \A k \in 1..Len(sub.screen) :
                  k # sub.launcher_buttons[substitution[sub.t].template] =>
                      sub'.screen[k] = sub.screen[k]
            /\ sub'.current_x_pos = sub.current_x_pos
            /\ sub'.current_y_pos = sub.current_y_pos
            /\ sub'.max_col_width = sub.max_col_width
            /\ sub'.hit_max_y_pos = sub.hit_max_y_pos
      ]_vars

C14_Witness ==
    /\ sub.pc = "done"
    /\ \E k \in 1..Len(sub.screen) :
          /\ sub.screen[k].kind = "ActionButton"
          /\ Len(sub.screen[k].actions) = 2
          /\ k < Cardinality(OfKind(sub, "ActionButton"))

\* A wrap occurred in the run, before an embedded display or after a
\* launcher button.
SubWrapOccurred ==
    \E k \in 1..Len(sub.log) : sub.log[k].wrap_before \/ sub.log[k].wrap_after

\* C19: the document is as high as the ceiling value (max_screen_height
\* plus the offset, or plus the full title bar height) if a wrap occurred on
\* either path, else as the final cursor y + offset; it is as wide as the
\* final cursor x + the tracked column width + offset.
C19_SubstitutionDocumentSize ==
    sub.pc = "done" =>
        /\ IF SubWrapOccurred
           THEN sub.screen_height \in {config.max_screen_height + config.widget_offset,
                                       SubCeiling(config)}
           ELSE sub.screen_height = sub.current_y_pos + config.widget_offset
        /\ sub.screen_width =
              sub.current_x_pos + sub.max_col_width + config.widget_offset

\* C20: on both paths no placed element has its bottom below the ceiling,
\* max_screen_height + full title bar height, unless the element alone is
\* higher than a column: the cursor wraps before such an element is placed.
C20_WrapBeforePlacement ==
    sub.pc \in {"loop", "done"} =>
        \A k \in 1..Len(sub.log) :
            sub.log[k].branch \in {"embed", "launcher"} =>
                LET element == sub.screen[sub.log[k].widget]
                IN \/ element.y + element.height <= SubCeiling(config)
                   \/ element.height > SubCeiling(config) - SubMargin(config)

(***************************************************************************)
(* Properties of pack_close_to_square                                      *)
(***************************************************************************)

\* C12: when every rectangle is lower than max_height the call returns, with
\* one position per rectangle, no two padded rectangles overlapping, and
\* the box it solved for is not higher than max_height.
C12_PackWithinMaxHeight ==
    (/\ pack.pc \in {"loop", "returned", "raised"}
     /\ \A k \in DOMAIN pack_args.rectangle_sizes :
           pack_args.rectangle_sizes[k][2] < pack_args.max_height) =>
        /\ pack.pc # "raised"
        /\ pack.pc = "returned" =>
              /\ Len(pack.packed_x_y_positions) = Len(pack_args.rectangle_sizes)
              /\ \A j, k \in DOMAIN pack_args.rectangle_sizes :
                    j # k => Disjoint(pack.padded_rectangle_sizes,
                                      pack.packed_x_y_positions, j, k)
              /\ pack.height <= pack_args.max_height

\* C17: an attempt that is infeasible grows the box and counts one more
\* iteration; the call goes on to the next attempt while the count is at
\* most 1000 and raises, without positions, when it gets to 1001; the
\* count never gets above 1001, so the loop ends.
C17_BoundedRetries ==
    [][pack.pc = "loop" =>
          \/ /\ pack'.pc = "returned"
             /\ pack'.iteration = pack.iteration
          \/ /\ pack'.iteration = pack.iteration + 1
             /\ <<pack'.height, pack'.width>> \in
                   {<<pack.height + Increment, pack.width>>,
                    <<pack.height, pack.width + Increment>>}
             /\ pack'.pc = (IF pack'.iteration >= 1001 THEN "raised" ELSE "loop")
             /\ pack'.packed_x_y_positions = <<>>
             /\ pack'.iteration <= 1001
      ]_vars

C17_Witness ==
    /\ pack.pc = "raised"
    /\ pack.iteration = 1001
    /\ pack.warnings = 1000
    /\ pack.packed_x_y_positions = <<>>

(***************************************************************************)
(* Properties of main                                                      *)
(***************************************************************************)

\* The calls of generate_bobfile_for_db made so far.
DbEvents == {e \in 1..Len(main.events) : main.events[e].op = "db"}

\* C15: the displays of the units are generated in the order the resolver
\* returned, before the call for any substitution; a call for a
\* substitution is given the display of every resolved unit, each generated
\* before it, and its lookup of a template that is a unit finds the display.
C15_UnitsBeforeSubstitutions ==
    main.pc \in {"dbs", "subs", "done"} =>
        /\ DbEvents = 1..Cardinality(DbEvents)
        /\ \A e \in DbEvents : e <= Len(ordered_dbs) /\ main.events[e].name = ordered_dbs[e]
        /\ \A e \in 1..Len(main.events) :
              main.events[e].op = "sub" =>
                  /\ opc = "returned"
                  /\ \A k \in 1..Len(ordered_dbs) :
                        /\ k \in DbEvents
                        /\ k < e
                        /\ BobOf(ordered_dbs[k]) \in main.events[e].found
                  /\ \A j \in DOMAIN main.events[e].lookups :
                        LET template == main.substitutions[
                                            CHOOSE i \in 1..Len(main.substitutions) :
                                                main.substitutions[i].name = main.events[e].name
                                        ].templates[j]
                        IN InOrdered(ordered_dbs, template.root) =>
                              main.events[e].lookups[j]

C15_Witness ==
    /\ main.pc = "done"
    /\ Len(ordered_dbs) >= 2
    /\ \E e \in 1..Len(main.events) :
          /\ main.events[e].op = "sub"
          /\ BobOf(ordered_dbs[Len(ordered_dbs)]) \in main.events[e].found
          /\ \E j \in DOMAIN main.events[e].lookups : main.events[e].lookups[j]
          /\ \E j \in DOMAIN main.events[e].lookups : ~ main.events[e].lookups[j]

\* The elements placed by the run: embedded displays and launcher buttons.
Placed(r) ==
    {r.log[k].widget : k \in {j \in 1..Len(r.log) : r.log[j].branch \in {"embed", "launcher"}}}

\* C21: every column of a substitution screen, the first one included,
\* starts at y = offset + full title bar height, whatever the configured
\* title bar format: the topmost element of a column is at that y.
C21_FixedTopMargin ==
    sub.pc \in {"loop", "done"} =>
        \A k \in Placed(sub) :
            \/ sub.screen[k].y = SubMargin(config)
            \/ \E j \in Placed(sub) :
                  /\ sub.screen[j].x = sub.screen[k].x
                  /\ sub.screen[j].y < sub.screen[k].y
                  /\ sub.screen[j].y >= SubMargin(config)

\* C22: every attempt is made on the box of the attempt before (100 x 100
\* before the first), grown by 100 in one dimension: in height when
\* height <= width and height + 100 <= max_height, in width otherwise.
C22_GrowthRule ==
    [][pack.pc = "loop" =>
          /\ pack.iteration = 0 => pack.height = 100 /\ pack.width = 100
          /\ IF pack.height <= pack.width /\ pack.height + 100 <= pack_args.max_height
             THEN pack'.height = pack.height + 100 /\ pack'.width = pack.width
             ELSE pack'.height = pack.height /\ pack'.width = pack.width + 100
      ]_vars

\* The column wrapped after the k-th group of the run.
WrapAfter(k) ==
    run.groups[k].y + config.default_widget_height + config.widget_offset > Ceiling

\* The rectangles of the screen that are not the border.
Dividers ==
    {k \in 1..Len(run.screen) :
        /\ run.screen[k].kind = "Rectangle"
        /\ ~ (config.title_bar_format = "minimal" /\ k = 1)}

IsPrefix(a, b) == Len(a) <= Len(b) /\ \A k \in 1..Len(a) : a[k] = b[k]

\* C24: the call ends, returned or raised; every pass resolves at least one
\* more unit or raises, and leaves the units resolved before it where they
\* are; there are at most as many passes as units; a returned ordering
\* holds every unit once.
C24_Terminates ==
    /\ <>(opc \in {"returned", "raised"})
    /\ [][(opc = "running" /\ passes' = passes + 1) =>
              /\ Len(ordered_dbs') > Len(ordered_dbs) \/ opc' = "raised"
              /\ opc' = "raised" => ordered_dbs' = ordered_dbs
              /\ IsPrefix(ordered_dbs, ordered_dbs')
              /\ passes' <= Len(databases)
         ]_vars
    /\ [](opc = "returned" =>
              /\ Len(ordered_dbs) = Len(databases)
              /\ \A name \in Keys(databases) :
                    Cardinality({k \in 1..Len(ordered_dbs) : ordered_dbs[k] = name}) = 1)

C24_Witness ==
    /\ opc = "returned"
    /\ Len(databases) >= 2
    /\ passes = Len(databases)

(***************************************************************************)
(* Properties of both layout cursors                                       *)
(***************************************************************************)

\* A step of generate_bobfile_for_db that places a group.
PlacesGroup == run.pc = "loop" /\ run'.pc = "loop" /\ Len(run'.groups) = Len(run.groups) + 1

\* A step of generate_bobfile_for_substitution, and the entry it logs.
SubStep == sub.pc = "loop" /\ sub'.pc = "loop" /\ Len(sub'.log) = Len(sub.log) + 1
LastEntry == sub'.log[Len(sub'.log)]

\* C25: with positive element height and offset, each cursor gets to its
\* terminal state, with every input item passed; x never decreases; a
\* placement whose projected y exceeds the ceiling wraps: y is reset to the
\* column top and x gets larger, and the run goes on placing; a placement
\* without a wrap leaves x and makes y larger.
C25_CursorsProgress ==
    /\ <>(run.pc = "done" \/ sub.pc = "done")
    /\ [](run.pc = "done" => run.i = Len(database) + 1)
    /\ [](sub.pc = "done" => sub.t = Len(substitution) + 1)
    /\ [][(run.pc = "loop" /\ config.default_widget_height > 0
                           /\ config.widget_offset > 0) =>
              /\ run'.current_x_pos >= run.current_x_pos
              /\ PlacesGroup =>
                    IF run.current_y_pos + config.default_widget_height
                           + config.widget_offset > Ceiling
                    THEN /\ run'.current_y_pos = StartY
                         /\ run'.current_x_pos > run.current_x_pos
                    ELSE /\ run'.current_y_pos > run.current_y_pos
                         /\ run'.current_x_pos = run.current_x_pos
         ]_vars
    /\ [][(sub.pc = "loop" /\ config.default_widget_height > 0
                           /\ config.widget_offset > 0) =>
              /\ sub'.current_x_pos >= sub.current_x_pos
              /\ SubStep =>
                    CASE LastEntry.wrap_before ->
                            /\ sub'.screen[LastEntry.widget].y = SubMargin(config)
                            /\ sub'.screen[LastEntry.widget].x > sub.current_x_pos
                            /\ sub'.current_x_pos = sub'.screen[LastEntry.widget].x
                            /\ sub'.current_y_pos > SubMargin(config)
                      [] LastEntry.wrap_after ->
                            /\ sub'.current_y_pos = SubMargin(config)
                            /\ sub'.current_x_pos > sub.current_x_pos
                      [] LastEntry.branch = "attach" ->
                            /\ sub'.current_y_pos = sub.current_y_pos
                            /\ sub'.current_x_pos = sub.current_x_pos
                      [] OTHER ->
                            /\ sub'.current_y_pos > sub.current_y_pos
                            /\ sub'.current_x_pos = sub.current_x_pos
         ]_vars

C25_Witness ==
    /\ sub.pc = "done"
    /\ \E j, k \in 1..Len(sub.log) : sub.log[j].wrap_before /\ sub.log[k].wrap_after

\* Every unit is listed after each of its includes that is a unit.
ValidlyOrdered(dbs) ==
    \A k \in 1..Len(dbs) : \A inc \in dbs[k].includes :
        SplitExt(inc)[1] \in Keys(dbs) =>
            \E j \in 1..(k - 1) : dbs[j].name = SplitExt(inc)[1]

\* The items of dbs in the order of the names of ordered.
Reordered(dbs, ordered) ==
    [k \in 1..Len(ordered) |->
        dbs[CHOOSE j \in 1..Len(dbs) : dbs[j].name = ordered[k]]]

\* The index of a name in the input.
InputIndex(name) == CHOOSE j \in 1..Len(databases) : databases[j].name = name

\* C26: a validly ordered input is returned in its own order; the call on
\* its own output returns that output; the units a pass resolves are added
\* in the iteration order of the input.
C26_OrderPreservedAndIdempotent ==
    /\ [](ValidlyOrdered(databases) =>
            /\ opc # "raised"
            /\ opc = "returned" =>
                  ordered_dbs = [k \in 1..Len(databases) |-> databases[k].name])
    /\ [](opc = "returned" =>
            order_dbs_by_includes(Reordered(databases, ordered_dbs)) =
                [result |-> "returned", ordered_dbs |-> ordered_dbs])
    /\ [][(opc = "running" /\ passes' = passes + 1) =>
              \A a, b \in (Len(ordered_dbs) + 1)..Len(ordered_dbs') :
                  a < b => InputIndex(ordered_dbs'[a]) < InputIndex(ordered_dbs'[b])
         ]_vars

C26_Witness ==
    /\ opc = "returned"
    /\ Len(databases) >= 3
    /\ ValidlyOrdered(databases)
    /\ \E k \in 1..Len(databases) : databases[k].includes # {}
    /\ passes = 1

\* No width configured for a kind of widget is larger than the default.
NoWideOverride ==
    \A kind \in DOMAIN config.widget_widths :
        config.widget_widths[kind] <= config.default_widget_width

\* The indices of the labels, widgets and readback widgets of the screen.
GroupWidgets ==
    UNION {run.groups[k].first .. (run.groups[k].first + run.groups[k].len - 1) :
              k \in 1..Len(run.groups)}

\* C27: without a width override larger than the default width, every
\* label, widget and readback widget of the document lies inside the
\* rectangle of the document.
C27_WidgetsInsideDocument ==
    (run.pc = "done" /\ NoWideOverride) =>
        \A k \in GroupWidgets :
            /\ run.screen[k].x >= 0
            /\ run.screen[k].y >= 0
            /\ run.screen[k].x + run.screen[k].width <= run.screen_width
            /\ run.screen[k].y + run.screen[k].height <= run.screen_height

\* C28: every embedded display and every launcher button of a substitution
\* screen lies inside the rectangle of the document, also when a column
\* wrapped.
C28_PlacedInsideDocument ==
    sub.pc = "done" =>
        \A k \in Placed(sub) :
            /\ sub.screen[k].x + sub.screen[k].width <= sub.screen_width
            /\ sub.screen[k].y + sub.screen[k].height <= sub.screen_height

\* The widgets that the instances of a template put on the screen on a branch.
WidgetsOf(r, template, branch) ==
    {r.log[e].widget : e \in Entries(r, template, branch)}

\* C29: the decision between embedding and a launcher button is the same
\* for all instances of a template: no template has both an embedded
\* display and a launcher button, and an embedded template has one embedded
\* display per instance processed, so one per instance at the return.
C29_OneDecisionPerTemplate ==
    sub.pc \in {"loop", "done"} =>
        \A k \in 1..Len(substitution) :
            LET template == substitution[k].template
                embedded == WidgetsOf(sub, template, "embed")
                launched == WidgetsOf(sub, template, "launcher")
                               \cup WidgetsOf(sub, template, "attach")
            IN /\ embedded = {} \/ launched = {}
               /\ \A w \in embedded : sub.screen[w].kind = "EmbeddedDisplay"
               /\ \A w \in launched : sub.screen[w].kind = "ActionButton"
               /\ embedded # {} =>
                     /\ Cardinality(embedded) = Processed(sub, k)
                     /\ Entries(sub, template, "launcher") = {}
                     /\ Entries(sub, template, "attach") = {}
               /\ launched # {} => Entries(sub, template, "embed") = {}
               /\ (sub.pc = "done" /\ embedded # {}) =>
                     Cardinality(embedded) = Len(substitution[k].instances)

C29_Witness ==
    /\ sub.pc = "done"
    /\ \E j, k \in 1..Len(substitution) :
          /\ Len(substitution[j].instances) = 2
          /\ Cardinality(WidgetsOf(sub, substitution[j].template, "embed")) = 2
          /\ Len(substitution[k].instances) = 2
          /\ Cardinality(WidgetsOf(sub, substitution[k].template, "launcher")) = 1

====
